---- MODULE Spec2Model ----
(***************************************************************************)
(* Model of src/tasks.py: the robot_spare_bin_python task.                 *)
(*                                                                         *)
(* One run of the task is a sequential program.  Every call into the       *)
(* browser, the HTTP library, the Excel library and the PDF library is an  *)
(* environment step that either returns or raises; the model chooses the   *)
(* outcome nondeterministically and follows the try/except/finally         *)
(* structure of the source for both outcomes.                              *)
(*                                                                         *)
(* log is the content of robot.log (level, message, row number or 0);      *)
(* ui is the sequence of calls made on the browser page.                   *)
(***************************************************************************)
EXTENDS Integers, Sequences, FiniteSets, TLC

VARIABLES pc, USERNAME, PASSWORD, log, ui, authenticated, attempts, slept,
          workbook, header, data_rows, row, artifacts, endStarted, raisedOut

vars == <<pc, USERNAME, PASSWORD, log, ui, authenticated, attempts, slept,
          workbook, header, data_rows, row, artifacts, endStarted, raisedOut>>

(* ---- bounds ---------------------------------------------------------- *)

\* Largest number of data rows in the downloaded workbook.
MaxRows == 3

(* ---- program constants ----------------------------------------------- *)

\* @retry(stop=stop_after_attempt(3), ...)
StopAfterAttempt == 3

\* @retry(..., wait=wait_fixed(2))
WaitFixed == 2

\* The four columns the form-filling step reads from a row.
Fields == {"First Name", "Last Name", "Sales Target", "Sales"}

\* os.getenv returns None ("absent") when the variable is not set; it may
\* also be set to the empty string.
EnvValues == {"absent", "", "set"}

\* Headers the worksheet may carry: any subset of the expected columns
\* (other columns are never read by the program).
Headers == SUBSET Fields

(* ---- helpers ---------------------------------------------------------- *)

\* One record of robot.log: level, message and the row it is about (0 when
\* the message is not about a row).
L(level, msg, r) == <<level, msg, r>>

\* Python truthiness of an environment value: None and "" are falsy.
Truthy(v) == v = "set"

\* if not USERNAME or not PASSWORD
CredentialsMissing == ~Truthy(USERNAME) \/ ~Truthy(PASSWORD)

InLog(msg) == \E i \in 1..Len(log) : log[i][2] = msg

CountLog(msg) == Cardinality({i \in 1..Len(log) : log[i][2] = msg})

RowsLogged(msg) == {log[i][3] : i \in {j \in 1..Len(log) : log[j][2] = msg}}

\* One call on the browser page and the row it is made for (0 when it is
\* not made for a row).
U(call, r) == <<call, r>>

UiCalled(call) == \E i \in 1..Len(ui) : ui[i][1] = call

\* Where control goes when the try body of robot_spare_bin_python ends
\* normally: the finally clause.
AfterTry == "end_process"

\* Variant: end_process called at the end of the try body instead of in a
\* finally clause, so that a run whose try body raised ends without it.
AfterExceptNoFinally == "done"

\* Where control goes after the except clause of robot_spare_bin_python:
\* the finally clause.
AfterExcept == "end_process"

\* Variant: the except clause of initialize_bot logs without raising, so
\* that robot_spare_bin_python goes on to process_sales_data.
AfterInitExceptSwallowed == "download"

\* Where control goes when initialize_bot fails: its except clause raises
\* ProcessError, which the except clause of robot_spare_bin_python handles.
AfterInitExcept == AfterExcept

\* Log records written when initialize_bot raises: its own except clause,
\* then the except clause of robot_spare_bin_python.
InitFailure ==
    << L("ERROR", "Initialization failed", 0),
       L("ERROR", "An unexpected error occurred", 0) >>

\* Log records written when process_sales_data raises outside the row loop.
ProcessFailure ==
    << L("ERROR", "Error during data processing", 0),
       L("ERROR", "An unexpected error occurred", 0) >>

(* ---- initial state ---------------------------------------------------- *)

Init ==
    /\ pc = "start"
    /\ USERNAME \in EnvValues
    /\ PASSWORD \in EnvValues
    /\ log = << >>
    /\ ui = << >>
    /\ authenticated = FALSE
    /\ attempts = 0
    /\ slept = 0
    /\ workbook = "none"
    /\ header = {}
    /\ data_rows = 0
    /\ row = 0
    /\ artifacts = {}
    /\ endStarted = 0
    /\ raisedOut = FALSE

(* ---- robot_spare_bin_python / initialize_bot / log_in ----------------- *)

\* robot_spare_bin_python enters its try block and calls initialize_bot,
\* which checks the credentials before it touches the browser.
StartRun ==
    /\ pc = "start"
    /\ IF CredentialsMissing
         THEN /\ log' = log \o << L("INFO", "Starting the robot process...", 0),
                                  L("INFO", "Initializing browser...", 0),
                                  L("ERROR", "Credentials are missing", 0) >>
                              \o InitFailure
              /\ pc' = AfterInitExcept
         ELSE /\ log' = log \o << L("INFO", "Starting the robot process...", 0),
                                  L("INFO", "Initializing browser...", 0) >>
              /\ pc' = "goto"
    /\ UNCHANGED <<USERNAME, PASSWORD, ui, authenticated, attempts, slept,
                   workbook, header, data_rows, row, artifacts, endStarted,
                   raisedOut>>

\* browser.configure(slowmo=100); browser.goto(...)
Goto ==
    /\ pc = "goto"
    /\ ui' = Append(ui, U("goto", 0))
    /\ \E ok \in BOOLEAN :
         IF ok
           THEN /\ log' = Append(log, L("INFO", "Attempting to log in...", 0))
                /\ pc' = "fill_username"
           ELSE /\ log' = log \o InitFailure
                /\ pc' = AfterInitExcept
    /\ UNCHANGED <<USERNAME, PASSWORD, authenticated, attempts, slept,
                   workbook, header, data_rows, row, artifacts, endStarted,
                   raisedOut>>

\* The except clause of log_in followed by the handlers above it.
LoginFailure == << L("ERROR", "Login failed.", 0) >> \o InitFailure

\* page.fill("#username", USERNAME)
FillUsername ==
    /\ pc = "fill_username"
    /\ ui' = Append(ui, U("fill #username", 0))
    /\ \E ok \in BOOLEAN :
         IF ok
           THEN /\ pc' = "fill_password"
                /\ log' = log
           ELSE /\ pc' = AfterInitExcept
                /\ log' = log \o LoginFailure
    /\ UNCHANGED <<USERNAME, PASSWORD, authenticated, attempts, slept,
                   workbook, header, data_rows, row, artifacts, endStarted,
                   raisedOut>>

\* page.fill("#password", PASSWORD)
FillPassword ==
    /\ pc = "fill_password"
    /\ ui' = Append(ui, U("fill #password", 0))
    /\ \E ok \in BOOLEAN :
         IF ok
           THEN /\ pc' = "click_login"
                /\ log' = log
           ELSE /\ pc' = AfterInitExcept
                /\ log' = log \o LoginFailure
    /\ UNCHANGED <<USERNAME, PASSWORD, authenticated, attempts, slept,
                   workbook, header, data_rows, row, artifacts, endStarted,
                   raisedOut>>

\* page.click("button:text('Log in')").  When the click returns, log_in
\* logs success and initialize_bot completes without looking at the page;
\* whether the application accepted the credentials is the application's
\* choice.
ClickLogin ==
    /\ pc = "click_login"
    /\ ui' = Append(ui, U("click Log in", 0))
    /\ \E ok \in BOOLEAN :
         IF ok
           THEN /\ \E accepted \in BOOLEAN : authenticated' = accepted
                /\ log' = log \o << L("INFO", "Login successful.", 0),
                                    L("INFO", "Initialization complete.", 0) >>
                /\ pc' = "download"
           ELSE /\ authenticated' = authenticated
                /\ log' = log \o LoginFailure
                /\ pc' = AfterInitExcept
    /\ UNCHANGED <<USERNAME, PASSWORD, attempts, slept, workbook, header,
                   data_rows, row, artifacts, endStarted, raisedOut>>

(* ---- download_excel_file ---------------------------------------------- *)

\* Variant: the stop condition off by one, allowing a fourth attempt.
RetryStopLate(attempt_number) == attempt_number > StopAfterAttempt

\* stop_after_attempt(3): tenacity stops retrying once the number of the
\* attempt that just failed has reached the limit.
RetryStop(attempt_number) == attempt_number >= StopAfterAttempt

\* One call of the decorated function body.  A failed attempt is followed
\* by a fixed wait and another attempt, or, when the stop condition holds,
\* by RetryError, which process_sales_data catches like any other error.
DownloadAttempt ==
    /\ pc = "download"
    /\ attempts' = attempts + 1
    /\ \E ok \in BOOLEAN :
         IF ok
           THEN /\ log' = log \o << L("INFO", "Downloading Excel file...", 0),
                                    L("INFO", "Excel file downloaded successfully.", 0) >>
                /\ pc' = "open_workbook"
                /\ slept' = slept
           ELSE IF RetryStop(attempts')
             THEN /\ log' = log \o << L("INFO", "Downloading Excel file...", 0),
                                      L("ERROR", "Failed to download Excel file.", 0) >>
                                  \o ProcessFailure
                  /\ pc' = AfterExcept
                  /\ slept' = slept
             ELSE /\ log' = log \o << L("INFO", "Downloading Excel file...", 0),
                                      L("ERROR", "Failed to download Excel file.", 0) >>
                  /\ pc' = "download"
                  /\ slept' = slept + WaitFixed
    /\ UNCHANGED <<USERNAME, PASSWORD, ui, authenticated, workbook, header,
                   data_rows, row, artifacts, endStarted, raisedOut>>

(* ---- process_sales_data: loading the workbook -------------------------- *)

\* excel.open_workbook("SalesData.xlsx")
OpenWorkbook ==
    /\ pc = "open_workbook"
    /\ \E ok \in BOOLEAN :
         IF ok
           THEN /\ workbook' = "open"
                /\ log' = log
                /\ pc' = "read_worksheet"
           ELSE /\ workbook' = workbook
                /\ log' = log \o ProcessFailure
                /\ pc' = AfterExcept
    /\ UNCHANGED <<USERNAME, PASSWORD, ui, authenticated, attempts, slept,
                   header, data_rows, row, artifacts, endStarted, raisedOut>>

\* data_rows = excel.read_worksheet_as_table("data", header=True).  The
\* table takes its column names from the first row whatever they are; the
\* call raises when, for instance, the worksheet "data" does not exist.
ReadWorksheet ==
    /\ pc = "read_worksheet"
    /\ \E ok \in BOOLEAN :
         IF ok
           THEN /\ \E h \in Headers, n \in 0..MaxRows :
                     /\ header' = h
                     /\ data_rows' = n
                /\ log' = log
                /\ pc' = "close_workbook"
           ELSE /\ UNCHANGED <<header, data_rows>>
                /\ log' = log \o ProcessFailure
                /\ pc' = AfterExcept
    /\ UNCHANGED <<USERNAME, PASSWORD, ui, authenticated, attempts, slept,
                   workbook, row, artifacts, endStarted, raisedOut>>

\* excel.close_workbook(), then the "Processing n rows" message.
CloseWorkbook ==
    /\ pc = "close_workbook"
    /\ workbook' = "closed"
    /\ log' = Append(log, L("INFO", "Processing rows of sales data...", 0))
    /\ pc' = "loop"
    /\ UNCHANGED <<USERNAME, PASSWORD, ui, authenticated, attempts, slept,
                   header, data_rows, row, artifacts, endStarted, raisedOut>>

(* ---- process_sales_data: the row loop ---------------------------------- *)

\* Variant: no try/except inside the for loop, so that the error of a row
\* reaches the outer handler of process_sales_data and ends the loop.
RowExceptAbort(lg, r) ==
    [pc |-> AfterExcept,
     log |-> Append(lg, L("ERROR", "Error processing row", r)) \o ProcessFailure]

\* Variant: the handler of the loop tries the failed row again instead of
\* continuing with the next one.
RowExceptRetry(lg, r) ==
    [pc |-> "firstname", log |-> Append(lg, L("ERROR", "Error processing row", r))]

\* The except clause inside the for loop: log the row and continue with
\* the next one.  The result is the next position and the log.
RowExcept(lg, r) ==
    [pc |-> "loop", log |-> Append(lg, L("ERROR", "Error processing row", r))]

\* Variant: the except clause of fill_and_submit_sales_form logs without
\* the raise statement, so the loop takes the row for a submitted one.
FormExceptSwallowed(lg, r) ==
    [pc |-> "loop", log |-> Append(lg, L("ERROR", "Failed to submit form for", r))]

\* The except clause of fill_and_submit_sales_form: log and re-raise, so
\* the handler of the loop runs next.
FormExcept(lg, r) ==
    RowExcept(Append(lg, L("ERROR", "Failed to submit form for", r)), r)

\* The for statement takes the next row, or the loop ends.  For a row the
\* first statement is the "Processing data for" message, whose f-string
\* reads row['First Name'] and row['Last Name'] and raises KeyError when
\* the table has no such column.  After the loop process_sales_data logs
\* and returns, and robot_spare_bin_python logs its success message.
NextRow ==
    /\ pc = "loop"
    /\ IF row < data_rows
         THEN /\ row' = row + 1
              /\ IF {"First Name", "Last Name"} \subseteq header
                   THEN /\ log' = Append(log, L("INFO", "Processing data for", row + 1))
                        /\ pc' = "firstname"
                   ELSE /\ log' = RowExcept(log, row + 1).log
                        /\ pc' = RowExcept(log, row + 1).pc
         ELSE /\ row' = row
              /\ log' = log \o << L("INFO", "All sales data processed.", 0),
                                  L("INFO", "Process completed successfully.", 0) >>
              /\ pc' = AfterTry
    /\ UNCHANGED <<USERNAME, PASSWORD, ui, authenticated, attempts, slept,
                   workbook, header, data_rows, artifacts, endStarted,
                   raisedOut>>

(* ---- fill_and_submit_sales_form ---------------------------------------- *)

\* One statement of the form function at position at: it reads column key
\* of the row (KeyError when the column is absent, before the page is
\* touched), then makes the call on the page, which returns or raises.
FormCall(at, key, call, next) ==
    /\ pc = at
    /\ IF key \notin header
         THEN /\ ui' = ui
              /\ log' = FormExcept(log, row).log
              /\ pc' = FormExcept(log, row).pc
         ELSE /\ ui' = Append(ui, U(call, row))
              /\ \E ok \in BOOLEAN :
                   IF ok
                     THEN /\ log' = log
                          /\ pc' = next
                     ELSE /\ log' = FormExcept(log, row).log
                          /\ pc' = FormExcept(log, row).pc
    /\ UNCHANGED <<USERNAME, PASSWORD, authenticated, attempts, slept,
                   workbook, header, data_rows, row, artifacts, endStarted,
                   raisedOut>>

\* page.fill("#firstname", sales_rep["First Name"])
FillFirstName == FormCall("firstname", "First Name", "fill #firstname", "lastname")

\* page.fill("#lastname", sales_rep["Last Name"])
FillLastName == FormCall("lastname", "Last Name", "fill #lastname", "salestarget")

\* page.select_option("#salestarget", str(sales_rep["Sales Target"]))
SelectSalesTarget ==
    FormCall("salestarget", "Sales Target", "select #salestarget", "salesresult")

\* page.fill("#salesresult", str(sales_rep["Sales"]))
FillSalesResult == FormCall("salesresult", "Sales", "fill #salesresult", "submit")

\* page.click("text=Submit") and the "Form submitted" message.
ClickSubmit ==
    /\ pc = "submit"
    /\ ui' = Append(ui, U("click Submit", row))
    /\ \E ok \in BOOLEAN :
         IF ok
           THEN /\ log' = Append(log, L("INFO", "Form submitted for", row))
                /\ pc' = "loop"
           ELSE /\ log' = FormExcept(log, row).log
                /\ pc' = FormExcept(log, row).pc
    /\ UNCHANGED <<USERNAME, PASSWORD, authenticated, attempts, slept,
                   workbook, header, data_rows, row, artifacts, endStarted,
                   raisedOut>>

(* ---- end_process ------------------------------------------------------- *)

\* Variant: the except clause of end_process logs and re-raises, as the one
\* of fill_and_submit_sales_form does.
EndExceptReraise(lg) ==
    [pc |-> "done", log |-> Append(lg, L("ERROR", "End process failed", 0)),
     raised |-> TRUE]

\* Variant: the logout click placed in a finally clause of end_process, so
\* that it is made after a failed export step too.
EndExceptThenLogout(lg) ==
    [pc |-> "logout", log |-> Append(lg, L("ERROR", "End process failed", 0)),
     raised |-> FALSE]

\* The except clause of end_process: log and return normally.  The result
\* is the next position, the log and whether an exception leaves the task.
EndExcept(lg) ==
    [pc |-> "done", log |-> Append(lg, L("ERROR", "End process failed", 0)),
     raised |-> FALSE]

\* end_process is entered; page.screenshot(path=screenshot_path).
Screenshot ==
    /\ pc = "end_process"
    /\ endStarted' = endStarted + 1
    /\ ui' = Append(ui, U("screenshot", 0))
    /\ \E ok \in BOOLEAN :
         LET lg == Append(log, L("INFO", "Taking screenshot and exporting results to PDF...", 0))
         IN IF ok
              THEN /\ artifacts' = artifacts \cup {"sales_summary.png"}
                   /\ log' = Append(lg, L("INFO", "Screenshot saved", 0))
                   /\ pc' = "inner_html"
                   /\ raisedOut' = raisedOut
              ELSE /\ artifacts' = artifacts
                   /\ log' = EndExcept(lg).log
                   /\ pc' = EndExcept(lg).pc
                   /\ raisedOut' = EndExcept(lg).raised
    /\ UNCHANGED <<USERNAME, PASSWORD, authenticated, attempts, slept,
                   workbook, header, data_rows, row>>

\* page.locator("#sales-results").inner_html()
InnerHtml ==
    /\ pc = "inner_html"
    /\ ui' = Append(ui, U("inner_html #sales-results", 0))
    /\ \E ok \in BOOLEAN :
         IF ok
           THEN /\ log' = log
                /\ pc' = "html_to_pdf"
                /\ raisedOut' = raisedOut
           ELSE /\ log' = EndExcept(log).log
                /\ pc' = EndExcept(log).pc
                /\ raisedOut' = EndExcept(log).raised
    /\ UNCHANGED <<USERNAME, PASSWORD, authenticated, attempts, slept,
                   workbook, header, data_rows, row, artifacts, endStarted>>

\* pdf.html_to_pdf(sales_results_html, pdf_path)
HtmlToPdf ==
    /\ pc = "html_to_pdf"
    /\ \E ok \in BOOLEAN :
         IF ok
           THEN /\ artifacts' = artifacts \cup {"sales_results.pdf"}
                /\ log' = Append(log, L("INFO", "PDF export completed", 0))
                /\ pc' = "logout"
                /\ raisedOut' = raisedOut
           ELSE /\ artifacts' = artifacts
                /\ log' = EndExcept(log).log
                /\ pc' = EndExcept(log).pc
                /\ raisedOut' = EndExcept(log).raised
    /\ UNCHANGED <<USERNAME, PASSWORD, ui, authenticated, attempts, slept,
                   workbook, header, data_rows, row, endStarted>>

\* page.click("text=Log out")
Logout ==
    /\ pc = "logout"
    /\ ui' = Append(ui, U("click Log out", 0))
    /\ \E ok \in BOOLEAN :
         IF ok
           THEN /\ authenticated' = FALSE
                /\ log' = Append(log, L("INFO", "Logged out successfully.", 0))
                /\ pc' = "done"
                /\ raisedOut' = raisedOut
           ELSE /\ authenticated' = authenticated
                /\ log' = EndExcept(log).log
                /\ pc' = EndExcept(log).pc
                /\ raisedOut' = EndExcept(log).raised
    /\ UNCHANGED <<USERNAME, PASSWORD, attempts, slept, workbook, header,
                   data_rows, row, artifacts, endStarted>>

(* ---- specification ----------------------------------------------------- *)

Next ==
    \/ StartRun
    \/ Goto
    \/ FillUsername
    \/ FillPassword
    \/ ClickLogin
    \/ DownloadAttempt
    \/ OpenWorkbook
    \/ ReadWorksheet
    \/ CloseWorkbook
    \/ NextRow
    \/ FillFirstName
    \/ FillLastName
    \/ SelectSalesTarget
    \/ FillSalesResult
    \/ ClickSubmit
    \/ Screenshot
    \/ InnerHtml
    \/ HtmlToPdf
    \/ Logout

Spec == Init /\ [][Next]_vars

TypeOK ==
    /\ USERNAME \in EnvValues
    /\ PASSWORD \in EnvValues
    /\ authenticated \in BOOLEAN
    /\ attempts \in 0..StopAfterAttempt
    /\ workbook \in {"none", "open", "closed"}
    /\ header \in Headers
    /\ data_rows \in 0..MaxRows
    /\ row \in 0..data_rows
    /\ artifacts \subseteq {"sales_summary.png", "sales_results.pdf"}
    /\ raisedOut \in BOOLEAN

(* ---- properties -------------------------------------------------------- *)

\* Positions inside end_process and after it.
EndPcs == {"end_process", "inner_html", "html_to_pdf", "logout", "done"}

\* Positions of the row loop and of the form function.
RowPcs == {"loop", "firstname", "lastname", "salestarget", "salesresult", "submit"}

\* Calls on the page that fill or submit the sales form.
FormCalls == {"fill #firstname", "fill #lastname", "select #salestarget",
              "fill #salesresult", "click Submit"}

\* Messages written by end_process.
EndMessages == {"Taking screenshot and exporting results to PDF...",
                "Screenshot saved", "PDF export completed",
                "Logged out successfully.", "End process failed"}

\* Every m1 record precedes every m2 record in the log.
Before(m1, m2) ==
    \A i, j \in 1..Len(log) : (log[i][2] = m1 /\ log[j][2] = m2) => i < j

IsBatchRecord(e) == e[2] \notin EndMessages

\* The part of the log written before end_process.
BatchLog(lg) == SelectSeq(lg, IsBatchRecord)

\* The fetch+load+process phase has ended: robot_spare_bin_python logged
\* its success message or its except clause ran.
PhaseEnded ==
    \/ InLog("Process completed successfully.")
    \/ InLog("An unexpected error occurred")

\* C1: once a batch of N = data_rows records is loaded the loop is never
\* aborted; every row that was taken and is over is logged exactly once,
\* either as a failure ("Error processing row") or as a success ("Form
\* submitted for"); and when the loop is over all N rows were taken,
\* failures + successes = N and "All sales data processed." was logged.
C1_PerRecordIsolation ==
    InLog("Processing rows of sales data...") =>
        LET finished == IF pc \in RowPcs \ {"loop"} THEN row - 1 ELSE row
            failures == RowsLogged("Error processing row")
            successes == RowsLogged("Form submitted for")
        IN /\ ~InLog("Error during data processing")
           /\ failures \cup successes = 1..finished
           /\ failures \cap successes = {}
           /\ CountLog("Error processing row") = Cardinality(failures)
           /\ CountLog("Form submitted for") = Cardinality(successes)
           /\ pc \in EndPcs =>
                 /\ row = data_rows
                 /\ CountLog("All sales data processed.") = 1
                 /\ CountLog("Error processing row") + CountLog("Form submitted for")
                       = data_rows

\* A finished run over at least two rows with a failed row and a
\* submitted row.
C1_Witness ==
    /\ pc = "done"
    /\ data_rows >= 2
    /\ InLog("All sales data processed.")
    /\ 1 \in RowsLogged("Form submitted for")
    /\ 2 \in RowsLogged("Error processing row")

\* C2: in a run in which initialize_bot succeeded, end_process is started
\* at most once, never before the fetch+load+process phase has ended, it is
\* the next step as soon as that phase has ended, and a finished run has
\* started it exactly once.
C2_FinalizerOnce ==
    InLog("Initialization complete.") =>
        /\ endStarted <= 1
        /\ endStarted = 1 => PhaseEnded
        /\ (PhaseEnded /\ endStarted = 0) => pc = "end_process"
        /\ pc \in RowPcs \cup {"download", "open_workbook", "read_worksheet",
                               "close_workbook"} => ~PhaseEnded
        /\ pc = "done" => endStarted = 1

\* A finished run whose fetch exhausted its retries after a successful
\* initialization, with end_process started once.
C2_Witness ==
    /\ pc = "done"
    /\ InLog("Initialization complete.")
    /\ CountLog("Failed to download Excel file.") = 3
    /\ endStarted = 1

\* C3: a run whose initialize_bot failed never starts end_process.
C3_NoFinalizerAfterInitFailure ==
    InLog("Initialization failed") => endStarted = 0

\* C4: at most 3 download attempts are made; the first successful attempt
\* is the last one; after 3 failed attempts there is no further attempt
\* and process_sales_data fails.
C4_BoundedRetry ==
    /\ attempts <= 3
    /\ CountLog("Downloading Excel file...") = attempts
    /\ pc = "download" =>
          /\ attempts < 3
          /\ CountLog("Failed to download Excel file.") = attempts
    /\ InLog("Excel file downloaded successfully.") =>
          /\ pc # "download"
          /\ CountLog("Excel file downloaded successfully.") = 1
          /\ CountLog("Failed to download Excel file.") = attempts - 1
          /\ Before("Failed to download Excel file.", "Excel file downloaded successfully.")
    /\ CountLog("Failed to download Excel file.") >= 3 =>
          /\ attempts = 3
          /\ pc # "download"
          /\ ~InLog("Excel file downloaded successfully.")
          /\ InLog("Error during data processing")

\* The download failed twice and succeeded on the third attempt.
C4_Witness ==
    /\ attempts = 3
    /\ CountLog("Failed to download Excel file.") = 2
    /\ InLog("Excel file downloaded successfully.")
    /\ pc = "open_workbook"

\* The fetch exhausted its retries.
FetchExhausted ==
    /\ pc # "download"
    /\ attempts >= 3
    /\ ~InLog("Excel file downloaded successfully.")

\* open_workbook raised.
OpenRaised ==
    /\ InLog("Excel file downloaded successfully.")
    /\ pc # "open_workbook"
    /\ workbook = "none"

\* read_worksheet_as_table raised.
ReadRaised ==
    /\ workbook = "open"
    /\ pc \notin {"read_worksheet", "close_workbook"}

\* C5: when the fetch exhausted its retries or opening or reading the
\* workbook raised, the processing phase has failed, no row was taken, no
\* form call was made, the batch is not completed, and end_process is the
\* next step or has been started.
C5_FatalLoad ==
    (FetchExhausted \/ OpenRaised \/ ReadRaised) =>
        /\ InLog("Error during data processing")
        /\ row = 0
        /\ \A c \in FormCalls : ~UiCalled(c)
        /\ ~InLog("Processing data for")
        /\ ~InLog("All sales data processed.")
        /\ ~InLog("Process completed successfully.")
        /\ pc \in EndPcs
        /\ pc = "end_process" \/ endStarted = 1

\* A finished run in which reading the worksheet raised and end_process
\* wrote the screenshot.
C5_Witness ==
    /\ ReadRaised
    /\ pc = "done"
    /\ endStarted = 1
    /\ "sales_summary.png" \in artifacts

\* C6: with a missing credential no call is ever made on the page.
C6_NoUiCallWithoutCredentials ==
    CredentialsMissing => ui = << >>

\* A step taken inside end_process leaves the row counter and the records
\* of the processing phase as they are and only appends to the log.
EndStepKeepsBatchOutcome ==
    pc \in EndPcs =>
        /\ row' = row
        /\ data_rows' = data_rows
        /\ BatchLog(log') = BatchLog(log)
        /\ SubSeq(log', 1, Len(log)) = log

\* C7: a failure inside end_process ends the run without an exception
\* leaving the task; the records of the processing phase, all of them
\* written before end_process started, and the row counter are not changed
\* by any step of end_process.
C7_ExportFailureSwallowed ==
    /\ [](InLog("End process failed") =>
             /\ pc = "done"
             /\ ~raisedOut
             /\ CountLog("End process failed") = 1
             /\ \A m \in {"An unexpected error occurred",
                           "Error during data processing",
                           "Error processing row",
                           "Process completed successfully."} :
                    Before(m, "Taking screenshot and exporting results to PDF..."))
    /\ [](pc = "done" => ~raisedOut)
    /\ [][EndStepKeepsBatchOutcome]_vars

\* A finished run in which the processing phase failed and then an export
\* step failed after the screenshot was written.
C7_Witness ==
    /\ pc = "done"
    /\ InLog("Error during data processing")
    /\ InLog("Screenshot saved")
    /\ InLog("End process failed")

\* C8: a row is only ever taken on an authenticated session.
C8_NoRecordWithoutAuthentication ==
    (pc \in RowPcs /\ row > 0) => authenticated

\* C9: when the table lacks one of the expected columns, no row is taken
\* and the batch is not completed.
C9_MissingHeaderIsFatal ==
    (workbook = "closed" /\ ~(Fields \subseteq header)) =>
        /\ row = 0
        /\ ~InLog("All sales data processed.")

\* C10: once loading has ended the workbook is not open.
C10_WorkbookReleased ==
    pc \notin {"read_worksheet", "close_workbook"} => workbook # "open"

\* C11: a finished run in which initialize_bot succeeded has clicked
\* "Log out".
C11_LogoutAlwaysTriggered ==
    (pc = "done" /\ InLog("Initialization complete.")) => UiCalled("click Log out")

\* Number of calls named call made on the page.
CountUi(call) == Cardinality({i \in 1..Len(ui) : ui[i][1] = call})

\* C12: a call that fills or submits the sales form is only made after
\* initialize_bot has completed (navigation, both login fills and the login
\* click returned, in this order, before the first form call), and the
\* navigation and the login are made at most once in a run.
C12_SessionBeforeRecords ==
    /\ CountUi("goto") <= 1
    /\ CountUi("fill #username") <= 1
    /\ CountUi("fill #password") <= 1
    /\ CountUi("click Log in") <= 1
    /\ CountLog("Initialization complete.") <= 1
    /\ (pc \in RowPcs \/ row > 0 \/ \E c \in FormCalls : UiCalled(c)) =>
          /\ InLog("Initialization complete.")
          /\ ~InLog("Initialization failed")
          /\ Len(ui) >= 4
          /\ ui[1] = U("goto", 0)
          /\ ui[2] = U("fill #username", 0)
          /\ ui[3] = U("fill #password", 0)
          /\ ui[4] = U("click Log in", 0)
          /\ Before("Initialization complete.", "Processing data for")
          /\ Before("Initialization complete.", "Error processing row")

\* Two rows were submitted in a run that logged in once.
C12_Witness ==
    /\ {1, 2} \subseteq RowsLogged("Form submitted for")
    /\ CountUi("click Log in") = 1
    /\ CountUi("click Submit") = 2

\* Messages that are about one row.
RowMessages == {"Processing data for", "Failed to submit form for",
                "Error processing row", "Form submitted for"}

\* Messages that end a row.
RowEndMessages == {"Error processing row", "Form submitted for"}

\* C13: rows are taken in source order 1, 2, ..., one at a time and once
\* each: in the log and among the page calls the row numbers never
\* decrease, every row below the current one has ended (as submitted or as
\* failed) before the first record of the next row, no message about a row
\* and no form call for a row occurs twice, and nothing is recorded for a
\* row after its end.
C13_RowOrder ==
    /\ row <= data_rows
    /\ \A i, j \in 1..Len(log) :
          (i < j /\ log[i][3] > 0 /\ log[j][3] > 0) =>
              /\ log[i][3] <= log[j][3]
              /\ log[i][3] = log[j][3] =>
                    /\ log[i][2] # log[j][2]
                    /\ log[i][2] # "Error processing row"
                    /\ log[i][2] # "Form submitted for"
              /\ log[i][3] < log[j][3] =>
                    \E k \in i..(j - 1) :
                        /\ log[k][3] = log[i][3]
                        /\ log[k][2] \in RowEndMessages
    /\ \A i \in 1..Len(log) :
          log[i][2] \in RowMessages => log[i][3] \in 1..row
    /\ \A r \in 1..(row - 1) :
          \E i \in 1..Len(log) : log[i][3] = r /\ log[i][2] \in RowEndMessages
    /\ \A i, j \in 1..Len(ui) :
          (i < j /\ ui[i][2] > 0 /\ ui[j][2] > 0) =>
              /\ ui[i][2] <= ui[j][2]
              /\ ui[i] # ui[j]
    /\ \A i \in 1..Len(ui) :
          ui[i][1] \in FormCalls => ui[i][2] \in 1..row

\* Row 1 failed inside the form, row 2 was submitted and row 3 is being
\* filled.
C13_Witness ==
    /\ row = 3
    /\ pc = "lastname"
    /\ 1 \in RowsLogged("Failed to submit form for")
    /\ 2 \in RowsLogged("Form submitted for")

\* The workbook was downloaded, opened, read and closed.
LoadSucceeded ==
    /\ InLog("Excel file downloaded successfully.")
    /\ workbook = "closed"

\* C14: "Process completed successfully." is logged at most once, not
\* before the loop is over, and a run that has reached end_process has
\* logged it exactly when initialize_bot, the download and the load all
\* succeeded, whatever the outcomes of the rows.
C14_SuccessMessage ==
    /\ CountLog("Process completed successfully.") <= 1
    /\ pc \notin EndPcs => ~InLog("Process completed successfully.")
    /\ pc \in EndPcs =>
          (InLog("Process completed successfully.")
             <=> (InLog("Initialization complete.") /\ LoadSucceeded))

\* A finished run that logged the success message although every one of
\* its three rows failed.
C14_Witness ==
    /\ pc = "done"
    /\ data_rows = 3
    /\ RowsLogged("Error processing row") = {1, 2, 3}
    /\ RowsLogged("Form submitted for") = {}
    /\ InLog("Process completed successfully.")

\* The calls fill_and_submit_sales_form makes on the page, in its order.
FormOrder == << "fill #firstname", "fill #lastname", "select #salestarget",
                "fill #salesresult", "click Submit" >>

\* The calls made on the page for row r, in the order they were made.
CallsOfRow(r) ==
    LET IsOfRow(e) == e[2] = r
        calls == SelectSeq(ui, IsOfRow)
    IN [i \in 1..Len(calls) |-> calls[i][1]]

\* C15: the calls made for a row are an initial part of firstname,
\* lastname, salestarget, salesresult, Submit, so the Submit click of a row
\* comes after its four fields, in this order; a row whose form function
\* raised has made no call after the raising one, was not logged as
\* submitted, and its error reached the handler of the loop, which logged
\* the row right after the form function did.
C15_SubmitAfterFields ==
    /\ \A r \in 1..MaxRows :
          /\ Len(CallsOfRow(r)) <= 5
          /\ CallsOfRow(r) = SubSeq(FormOrder, 1, Len(CallsOfRow(r)))
          /\ r \in RowsLogged("Form submitted for") => CallsOfRow(r) = FormOrder
          /\ (r = row /\ pc \in RowPcs \ {"loop"}) =>
                /\ r \notin RowsLogged("Failed to submit form for")
                /\ pc = (<< "firstname", "lastname", "salestarget", "salesresult",
                            "submit" >>)[Len(CallsOfRow(r)) + 1]
    /\ \A i \in 1..Len(log) :
          log[i][2] = "Failed to submit form for" =>
              /\ log[i][3] \notin RowsLogged("Form submitted for")
              /\ i < Len(log)
              /\ log[i + 1] = L("ERROR", "Error processing row", log[i][3])

\* Row 1 failed at the sales target after its two name fields were filled,
\* and row 2 was submitted.
C15_Witness ==
    /\ pc = "loop"
    /\ row = 2
    /\ CallsOfRow(1) = << "fill #firstname", "fill #lastname", "select #salestarget" >>
    /\ 1 \in RowsLogged("Failed to submit form for")
    /\ CallsOfRow(2) = FormOrder
    /\ 2 \in RowsLogged("Form submitted for")

\* The records end_process writes when nothing fails, in its order.
EndOrder == << "Taking screenshot and exporting results to PDF...",
               "Screenshot saved", "PDF export completed",
               "Logged out successfully." >>

\* The records of end_process in the log, in the order they were written.
EndLog ==
    LET IsEndRecord(e) == e[2] \in EndMessages
        recs == SelectSeq(log, IsEndRecord)
    IN [i \in 1..Len(recs) |-> recs[i][2]]

\* C16: end_process is one ordered chain: its records are an initial part
\* of start, screenshot, PDF, logout, followed by at most one failure
\* record that ends it; the results region is read only after the
\* screenshot was written, the PDF is written only after the screenshot,
\* and "Log out" is clicked only after both artifacts were written.
C16_ExportChain ==
    /\ LET n == Len(EndLog)
           failed == n > 0 /\ EndLog[n] = "End process failed"
           m == IF failed THEN n - 1 ELSE n
       IN /\ m <= 4
          /\ SubSeq(EndLog, 1, m) = SubSeq(EndOrder, 1, m)
          /\ failed => (pc = "done" /\ m >= 1 /\ m <= 3)
    /\ UiCalled("inner_html #sales-results") => "sales_summary.png" \in artifacts
    /\ "sales_results.pdf" \in artifacts =>
          /\ "sales_summary.png" \in artifacts
          /\ UiCalled("inner_html #sales-results")
    /\ UiCalled("click Log out") =>
          artifacts = {"sales_summary.png", "sales_results.pdf"}
    /\ pc = "logout" => artifacts = {"sales_summary.png", "sales_results.pdf"}
    /\ CountUi("screenshot") <= 1
    /\ CountUi("click Log out") <= 1

\* A finished run in which the screenshot was written and the PDF render
\* failed: no PDF, no logout.
C16_Witness ==
    /\ pc = "done"
    /\ artifacts = {"sales_summary.png"}
    /\ UiCalled("inner_html #sales-results")
    /\ InLog("End process failed")
    /\ ~UiCalled("click Log out")

====
